---- MODULE Spec2Model ----
(***************************************************************************)
(* Model of PostAnalyzer/selection.h: the lepton quality filters SelectEl  *)
(* and SelectMu and the three dilepton selectors SelectDilepEMu,           *)
(* SelectDilepEE and SelectDilepMuMu.                                      *)
(*                                                                         *)
(* Every double of the program (pt, eta, phi, isolation, impact            *)
(* parameters, chi2/ndof, masses, four-vector components) is a fixed-point *)
(* integer counting hundredths: 20.0 is 2000, 0.17 is 17, 12.0 is 1200.    *)
(* The sign of a stored pt is the charge, as in tree.h.                    *)
(***************************************************************************)
EXTENDS Integers, Sequences, FiniteSets, TLC

VARIABLES tree, vecLepM, vecLepP, maxPtDiLep,
          pc, el, mu, el1, el2, mu1, mu2, ret,
          selector, entry, lastPair

vars == <<tree, vecLepM, vecLepP, maxPtDiLep,
          pc, el, mu, el1, el2, mu1, mu2, ret,
          selector, entry, lastPair>>

outputs == <<vecLepM, vecLepP, maxPtDiLep>>

\* largest number of lepton candidates (electrons plus muons) in one event
MaxCand == 3

----------------------------------------------------------------------------
(* Arithmetic helpers                                                      *)

Abs(x) == IF x < 0 THEN -x ELSE x

RECURSIVE SqrtSearch(_, _, _)
SqrtSearch(n, lo, hi) ==
  IF lo >= hi THEN lo
  ELSE LET mid == (lo + hi + 1) \div 2
       IN  IF mid * mid <= n THEN SqrtSearch(n, mid, hi)
                             ELSE SqrtSearch(n, lo, mid - 1)

\* TMath::Sqrt on fixed-point values: the largest r with r*r <= n
Sqrt(n) == SqrtSearch(n, 0, 46340)

\* thirteen times the cosine of the azimuth; the four azimuths of the model
\* (0, pi/2, pi - atan(5/12), pi) have rational cosine and sine
Cos13(phi) == CASE phi = 0   -> 13
                [] phi = 157 -> 0
                [] phi = 275 -> -12
                [] phi = 314 -> -13

Sin13(phi) == CASE phi = 0   -> 0
                [] phi = 157 -> 13
                [] phi = 275 -> 5
                [] phi = 314 -> 0

\* a hundred times the hyperbolic sine of the pseudorapidity
Sinh100(eta) == CASE eta = 0    -> 0
                  [] eta = 240  -> 547
                  [] eta = -240 -> -547
                  [] eta = 250  -> 605
                  [] eta = -250 -> -605

----------------------------------------------------------------------------
(* TLorentzVector                                                          *)

\* default-constructed TLorentzVector
ZeroVec == [X |-> 0, Y |-> 0, Z |-> 0, T |-> 0]

\* TLorentzVector::SetPtEtaPhiM: x = pt cos(phi), y = pt sin(phi),
\* z = pt sinh(eta), t = sqrt(x^2 + y^2 + z^2 + m^2)
SetPtEtaPhiM(pt, eta, phi, m) ==
  LET x == (Abs(pt) * Cos13(phi)) \div 13
      y == (Abs(pt) * Sin13(phi)) \div 13
      z == (Abs(pt) * Sinh100(eta)) \div 100
  IN  [X |-> x, Y |-> y, Z |-> z, T |-> Sqrt(x * x + y * y + z * z + m * m)]

\* TLorentzVector::operator+
VecAdd(a, b) == [X |-> a.X + b.X, Y |-> a.Y + b.Y, Z |-> a.Z + b.Z, T |-> a.T + b.T]

\* TLorentzVector::M: sqrt of t^2 - |p|^2, negated when that is negative
M(v) ==
  LET mm == v.T * v.T - (v.X * v.X + v.Y * v.Y + v.Z * v.Z)
  IN  IF mm < 0 THEN -Sqrt(-mm) ELSE Sqrt(mm)

\* TLorentzVector::Pt
Pt(v) == Sqrt(v.X * v.X + v.Y * v.Y)

----------------------------------------------------------------------------
(* Constants and quality filters                                           *)

massEl == 0
massMu == 11

\* SelectEl without the missing-hits cut
SelectEl_NoMissHits(preselTree, e) ==
  IF Abs(preselTree.elPt[e + 1]) < 2000 THEN FALSE
  ELSE IF Abs(preselTree.elEta[e + 1]) > 240 THEN FALSE
  ELSE IF preselTree.elIso03[e + 1] > 17 THEN FALSE
  ELSE TRUE

\* SelectEl rejecting |pt| = 20.0 and isolation = 0.17
SelectEl_Exclusive(preselTree, e) ==
  IF Abs(preselTree.elPt[e + 1]) <= 2000 THEN FALSE
  ELSE IF Abs(preselTree.elEta[e + 1]) > 240 THEN FALSE
  ELSE IF preselTree.elIso03[e + 1] >= 17 THEN FALSE
  ELSE IF preselTree.elMissHits[e + 1] > 0 THEN FALSE
  ELSE TRUE

\* bool SelectEl(const ZTree* preselTree, const int el)
SelectEl(preselTree, e) ==
  IF Abs(preselTree.elPt[e + 1]) < 2000 THEN FALSE
  ELSE IF Abs(preselTree.elEta[e + 1]) > 240 THEN FALSE
  ELSE IF preselTree.elIso03[e + 1] > 17 THEN FALSE
  ELSE IF preselTree.elMissHits[e + 1] > 0 THEN FALSE
  ELSE TRUE

\* SelectMu asking for 11 tracker hits and 1 pixel hit only
SelectMu_FewerHits(preselTree, m) ==
  IF Abs(preselTree.muPt[m + 1]) < 2000 THEN FALSE
  ELSE IF Abs(preselTree.muEta[m + 1]) > 240 THEN FALSE
  ELSE IF preselTree.muIso03[m + 1] > 20 THEN FALSE
  ELSE IF preselTree.muHitsValid[m + 1] < 11 \/ preselTree.muHitsPixel[m + 1] < 1 THEN FALSE
  ELSE IF \/ preselTree.muDistPV0[m + 1] > 2
          \/ preselTree.muDistPVz[m + 1] > 50
          \/ preselTree.muTrackChi2NDOF[m + 1] > 1000 THEN FALSE
  ELSE TRUE

\* bool SelectMu(const ZTree* preselTree, const int mu)
SelectMu(preselTree, m) ==
  IF Abs(preselTree.muPt[m + 1]) < 2000 THEN FALSE
  ELSE IF Abs(preselTree.muEta[m + 1]) > 240 THEN FALSE
  ELSE IF preselTree.muIso03[m + 1] > 20 THEN FALSE
  ELSE IF preselTree.muHitsValid[m + 1] < 12 \/ preselTree.muHitsPixel[m + 1] < 2 THEN FALSE
  ELSE IF \/ preselTree.muDistPV0[m + 1] > 2
          \/ preselTree.muDistPVz[m + 1] > 50
          \/ preselTree.muTrackChi2NDOF[m + 1] > 1000 THEN FALSE
  ELSE TRUE

----------------------------------------------------------------------------
(* Pieces of the three dilepton selectors                                  *)

\* thisEl / thisEl1 / thisEl2: four-vector of electron e
ThisEl(preselTree, e) ==
  SetPtEtaPhiM(Abs(preselTree.elPt[e + 1]), preselTree.elEta[e + 1],
               preselTree.elPhi[e + 1], massEl)

\* thisMu / thisMu1 / thisMu2: four-vector of muon m
ThisMu(preselTree, m) ==
  SetPtEtaPhiM(Abs(preselTree.muPt[m + 1]), preselTree.muEta[m + 1],
               preselTree.muPhi[m + 1], massMu)

\* SelectDilepEMu: the conditions that `continue' the muon loop; the variants
\* named _Xxx here and below are faulty versions used to test the properties
EMuSameSign_Inverted(preselTree, e, m) == preselTree.elPt[e + 1] * preselTree.muPt[m + 1] < 0
EMuSameSign(preselTree, e, m) == preselTree.elPt[e + 1] * preselTree.muPt[m + 1] > 0
EMuLowMass(vecDiLep) == M(vecDiLep) < 1200
EMuNotBest_Strict(sumPt, best) == sumPt <= best
EMuNotBest(sumPt, best) == sumPt < best
\* SelectDilepEMu: the two conditional assignments to the outputs
EMuLepM(preselTree, e, thisEl, thisMu) == IF preselTree.elPt[e + 1] < 0 THEN thisEl ELSE thisMu
EMuLepP(preselTree, e, thisEl, thisMu) == IF preselTree.elPt[e + 1] < 0 THEN thisMu ELSE thisEl

\* SelectDilepEE: the conditions that `continue' the second electron loop
EESameSign(preselTree, e1, e2) == preselTree.elPt[e1 + 1] * preselTree.elPt[e2 + 1] > 0
EELowMass(vecDiLep) == M(vecDiLep) < 1200
EEZWindow_Inclusive(vecDiLep) == M(vecDiLep) >= 7600 /\ M(vecDiLep) <= 10600
EEZWindow(vecDiLep) == M(vecDiLep) > 7600 /\ M(vecDiLep) < 10600
EENotBest_Never(sumPt, best) == FALSE
EENotBest(sumPt, best) == sumPt < best
\* SelectDilepEE: the two conditional assignments to the outputs
EELepM_Positive(preselTree, e1, thisEl1, thisEl2) == IF preselTree.elPt[e1 + 1] > 0 THEN thisEl1 ELSE thisEl2
EELepM(preselTree, e1, thisEl1, thisEl2) == IF preselTree.elPt[e1 + 1] < 0 THEN thisEl1 ELSE thisEl2
EELepP(preselTree, e1, thisEl1, thisEl2) == IF preselTree.elPt[e1 + 1] < 0 THEN thisEl2 ELSE thisEl1

\* SelectDilepMuMu: the conditions that `continue' the second muon loop
MuMuSameSign(preselTree, m1, m2) == preselTree.muPt[m1 + 1] * preselTree.muPt[m2 + 1] > 0
MuMuLowMass_Inclusive(vecDiLep) == M(vecDiLep) <= 1200
MuMuLowMass(vecDiLep) == M(vecDiLep) < 1200
MuMuZWindow_Off(vecDiLep) == FALSE
MuMuZWindow(vecDiLep) == M(vecDiLep) > 7600 /\ M(vecDiLep) < 10600
MuMuNotBest(sumPt, best) == sumPt < best
\* SelectDilepMuMu: the two conditional assignments to the outputs
MuMuLepM(preselTree, m1, thisMu1, thisMu2) == IF preselTree.muPt[m1 + 1] < 0 THEN thisMu1 ELSE thisMu2
MuMuLepP(preselTree, m1, thisMu1, thisMu2) == IF preselTree.muPt[m1 + 1] < 0 THEN thisMu2 ELSE thisMu1

----------------------------------------------------------------------------
(* Events                                                                  *)

ElCand(pt, eta, phi, iso, miss) ==
  [Pt |-> pt, Eta |-> eta, Phi |-> phi, Iso03 |-> iso, MissHits |-> miss]

MuCand(pt, eta, phi, iso, hits, pix, d0, dz, chi2) ==
  [Pt |-> pt, Eta |-> eta, Phi |-> phi, Iso03 |-> iso, HitsValid |-> hits,
   HitsPixel |-> pix, DistPV0 |-> d0, DistPVz |-> dz, TrackChi2NDOF |-> chi2]

\* electron candidates an event of the pair selectors is built from
ElCands ==
  { ElCand(-3800, 0, 0, 17, 0),   ElCand(3800, 0, 314, 17, 0),
    ElCand(3800, 0, 157, 17, 0),  ElCand(-5300, 0, 0, 17, 0),
    ElCand(5300, 0, 314, 17, 0),  ElCand(-3600, 0, 314, 17, 0),
    ElCand(2600, 0, 275, 17, 0),  ElCand(5300, 0, 157, 17, 1) }

\* muon candidates an event of the pair selectors is built from
MuCands ==
  { MuCand(-3800, 0, 0, 20, 12, 2, 2, 50, 1000),
    MuCand(3800, 0, 314, 20, 12, 2, 2, 50, 1000),
    MuCand(3800, 0, 157, 20, 12, 2, 2, 50, 1000),
    MuCand(-5300, 0, 0, 20, 12, 2, 2, 50, 1000),
    MuCand(5300, 0, 314, 20, 12, 2, 2, 50, 1000),
    MuCand(-3600, 0, 314, 20, 12, 2, 2, 50, 1000),
    MuCand(2600, 0, 275, 20, 12, 2, 2, 50, 1000),
    MuCand(5300, 0, 157, 20, 11, 2, 2, 50, 1000) }

\* the ZTree of one event after GetEntry(): counts and parallel arrays
MkTree(els, mus) ==
  [Nel |-> Len(els), Nmu |-> Len(mus),
   elPt |-> [k \in DOMAIN els |-> els[k].Pt],
   elEta |-> [k \in DOMAIN els |-> els[k].Eta],
   elPhi |-> [k \in DOMAIN els |-> els[k].Phi],
   elIso03 |-> [k \in DOMAIN els |-> els[k].Iso03],
   elMissHits |-> [k \in DOMAIN els |-> els[k].MissHits],
   muPt |-> [k \in DOMAIN mus |-> mus[k].Pt],
   muEta |-> [k \in DOMAIN mus |-> mus[k].Eta],
   muPhi |-> [k \in DOMAIN mus |-> mus[k].Phi],
   muIso03 |-> [k \in DOMAIN mus |-> mus[k].Iso03],
   muHitsValid |-> [k \in DOMAIN mus |-> mus[k].HitsValid],
   muHitsPixel |-> [k \in DOMAIN mus |-> mus[k].HitsPixel],
   muDistPV0 |-> [k \in DOMAIN mus |-> mus[k].DistPV0],
   muDistPVz |-> [k \in DOMAIN mus |-> mus[k].DistPVz],
   muTrackChi2NDOF |-> [k \in DOMAIN mus |-> mus[k].TrackChi2NDOF]]

\* what the caller passes in the in/out arguments: a sentinel with fresh
\* vectors, or the result of an earlier selection
Entries ==
  { [maxPtDiLep |-> -100, vecLepM |-> ZeroVec, vecLepP |-> ZeroVec],
    [maxPtDiLep |-> 7600,
     vecLepM |-> SetPtEtaPhiM(3800, 0, 157, massMu),
     vecLepP |-> SetPtEtaPhiM(3800, 0, 314, massMu)] }

----------------------------------------------------------------------------
(* The pair selectors, one step per loop iteration                         *)

Start(t, e) ==
  /\ tree = t
  /\ entry = e
  /\ vecLepM = e.vecLepM
  /\ vecLepP = e.vecLepP
  /\ maxPtDiLep = e.maxPtDiLep
  /\ pc = "idle"
  /\ el = 0 /\ mu = 0 /\ el1 = 0 /\ el2 = 0 /\ mu1 = 0 /\ mu2 = 0
  /\ ret = FALSE
  /\ selector = "none"
  /\ lastPair = <<>>

Init ==
  \E n \in 0..MaxCand : \E ne \in 0..n :
    \E els \in [1..ne -> ElCands], mus \in [1..(n - ne) -> MuCands], e \in Entries :
      Start(MkTree(els, mus), e)

CallEMu ==
  /\ pc = "idle"
  /\ pc' = "EMu_el" /\ selector' = "EMu" /\ el' = 0
  /\ UNCHANGED <<tree, outputs, mu, el1, el2, mu1, mu2, ret, entry, lastPair>>

\* for(el ...) { if(!SelectEl) continue; thisEl...; for(mu = 0; ...
EMuElStep ==
  /\ pc = "EMu_el"
  /\ IF ~(el < tree.Nel) THEN pc' = "done" /\ UNCHANGED <<el, mu>>
     ELSE IF ~SelectEl(tree, el) THEN el' = el + 1 /\ UNCHANGED <<pc, mu>>
     ELSE pc' = "EMu_mu" /\ mu' = 0 /\ UNCHANGED el
  /\ UNCHANGED <<tree, outputs, el1, el2, mu1, mu2, ret, selector, entry, lastPair>>

\* one iteration of the muon loop, or leaving it
EMuMuStep ==
  /\ pc = "EMu_mu"
  /\ IF ~(mu < tree.Nmu)
     THEN pc' = "EMu_el" /\ el' = el + 1 /\ UNCHANGED <<mu, outputs, lastPair>>
     ELSE LET thisEl == ThisEl(tree, el)
              thisMu == ThisMu(tree, mu)
              vecDiLep == VecAdd(thisEl, thisMu)
              sumPt == Pt(thisMu) + Pt(thisEl)
          IN  /\ IF \/ EMuSameSign(tree, el, mu)
                    \/ ~SelectMu(tree, mu)
                    \/ EMuLowMass(vecDiLep)
                    \/ EMuNotBest(sumPt, maxPtDiLep)
                 THEN UNCHANGED <<outputs, lastPair>>
                 ELSE /\ maxPtDiLep' = sumPt
                      /\ vecLepM' = EMuLepM(tree, el, thisEl, thisMu)
                      /\ vecLepP' = EMuLepP(tree, el, thisEl, thisMu)
                      /\ lastPair' = <<el, mu>>
              /\ mu' = mu + 1 /\ UNCHANGED <<pc, el>>
  /\ UNCHANGED <<tree, el1, el2, mu1, mu2, ret, selector, entry>>

CallEE ==
  /\ pc = "idle"
  /\ pc' = "EE_el1" /\ selector' = "EE" /\ el1' = 0
  /\ UNCHANGED <<tree, outputs, el, mu, el2, mu1, mu2, ret, entry, lastPair>>

\* for(el1 ...) { if(!SelectEl) continue; thisEl1...; for(el2 = el1 + 1; ...
EEEl1Step ==
  /\ pc = "EE_el1"
  /\ IF ~(el1 < tree.Nel) THEN pc' = "done" /\ UNCHANGED <<el1, el2>>
     ELSE IF ~SelectEl(tree, el1) THEN el1' = el1 + 1 /\ UNCHANGED <<pc, el2>>
     ELSE pc' = "EE_el2" /\ el2' = el1 + 1 /\ UNCHANGED el1
  /\ UNCHANGED <<tree, outputs, el, mu, mu1, mu2, ret, selector, entry, lastPair>>

\* one iteration of the second electron loop, or leaving it
EEEl2Step ==
  /\ pc = "EE_el2"
  /\ IF ~(el2 < tree.Nel)
     THEN pc' = "EE_el1" /\ el1' = el1 + 1 /\ UNCHANGED <<el2, outputs, lastPair>>
     ELSE LET thisEl1 == ThisEl(tree, el1)
              thisEl2 == ThisEl(tree, el2)
              vecDiLep == VecAdd(thisEl1, thisEl2)
              sumPt == Pt(thisEl1) + Pt(thisEl2)
          IN  /\ IF \/ EESameSign(tree, el1, el2)
                    \/ ~SelectEl(tree, el2)
                    \/ EELowMass(vecDiLep)
                    \/ EEZWindow(vecDiLep)
                    \/ EENotBest(sumPt, maxPtDiLep)
                 THEN UNCHANGED <<outputs, lastPair>>
                 ELSE /\ maxPtDiLep' = sumPt
                      /\ vecLepM' = EELepM(tree, el1, thisEl1, thisEl2)
                      /\ vecLepP' = EELepP(tree, el1, thisEl1, thisEl2)
                      /\ lastPair' = <<el1, el2>>
              /\ el2' = el2 + 1 /\ UNCHANGED <<pc, el1>>
  /\ UNCHANGED <<tree, el, mu, mu1, mu2, ret, selector, entry>>

CallMuMu ==
  /\ pc = "idle"
  /\ pc' = "MuMu_mu1" /\ selector' = "MuMu" /\ mu1' = 0
  /\ UNCHANGED <<tree, outputs, el, mu, el1, el2, mu2, ret, entry, lastPair>>

\* for(mu1 ...) { if(!SelectMu) continue; thisMu1...; for(mu2 = mu1 + 1; ...
MuMuMu1Step ==
  /\ pc = "MuMu_mu1"
  /\ IF ~(mu1 < tree.Nmu) THEN pc' = "done" /\ UNCHANGED <<mu1, mu2>>
     ELSE IF ~SelectMu(tree, mu1) THEN mu1' = mu1 + 1 /\ UNCHANGED <<pc, mu2>>
     ELSE pc' = "MuMu_mu2" /\ mu2' = mu1 + 1 /\ UNCHANGED mu1
  /\ UNCHANGED <<tree, outputs, el, mu, el1, el2, ret, selector, entry, lastPair>>

\* one iteration of the second muon loop, or leaving it
MuMuMu2Step ==
  /\ pc = "MuMu_mu2"
  /\ IF ~(mu2 < tree.Nmu)
     THEN pc' = "MuMu_mu1" /\ mu1' = mu1 + 1 /\ UNCHANGED <<mu2, outputs, lastPair>>
     ELSE LET thisMu1 == ThisMu(tree, mu1)
              thisMu2 == ThisMu(tree, mu2)
              vecDiLep == VecAdd(thisMu1, thisMu2)
              sumPt == Pt(thisMu1) + Pt(thisMu2)
          IN  /\ IF \/ MuMuSameSign(tree, mu1, mu2)
                    \/ ~SelectMu(tree, mu2)
                    \/ MuMuLowMass(vecDiLep)
                    \/ MuMuZWindow(vecDiLep)
                    \/ MuMuNotBest(sumPt, maxPtDiLep)
                 THEN UNCHANGED <<outputs, lastPair>>
                 ELSE /\ maxPtDiLep' = sumPt
                      /\ vecLepM' = MuMuLepM(tree, mu1, thisMu1, thisMu2)
                      /\ vecLepP' = MuMuLepP(tree, mu1, thisMu1, thisMu2)
                      /\ lastPair' = <<mu1, mu2>>
              /\ mu2' = mu2 + 1 /\ UNCHANGED <<pc, mu1>>
  /\ UNCHANGED <<tree, el, mu, el1, el2, ret, selector, entry>>

Next ==
  \/ CallEMu \/ EMuElStep \/ EMuMuStep
  \/ CallEE \/ EEEl1Step \/ EEEl2Step
  \/ CallMuMu \/ MuMuMu1Step \/ MuMuMu2Step

Spec == Init /\ [][Next]_vars

----------------------------------------------------------------------------
(* The quality filters called on their own                                 *)

\* electron candidates around every threshold of SelectEl
ElFilterCands ==
  { ElCand(pt, eta, 0, iso, miss) :
      pt \in {-2001, -2000, -1999, 1999, 2000, 2001},
      eta \in {-241, -240, 0, 240, 241},
      iso \in {16, 17, 18},
      miss \in {0, 1, 2} }

\* muon candidates around every threshold of SelectMu
MuFilterCands ==
  { MuCand(pt, eta, 0, iso, hits, pix, d0, dz, chi2) :
      pt \in {-2000, -1999, 1999, 2000},
      eta \in {-241, 240, 241},
      iso \in {20, 21},
      hits \in {11, 12},
      pix \in {1, 2},
      d0 \in {2, 3},
      dz \in {50, 51},
      chi2 \in {1000, 1001} }

InitEl == \E c \in ElFilterCands, e \in Entries : Start(MkTree(<<c>>, <<>>), e)

InitMu == \E c \in MuFilterCands, e \in Entries : Start(MkTree(<<>>, <<c>>), e)

CallSelectEl ==
  /\ pc = "idle" /\ tree.Nel > 0
  /\ pc' = "ret" /\ selector' = "SelectEl" /\ ret' = SelectEl(tree, 0)
  /\ UNCHANGED <<tree, outputs, el, mu, el1, el2, mu1, mu2, entry, lastPair>>

CallSelectMu ==
  /\ pc = "idle" /\ tree.Nmu > 0
  /\ pc' = "ret" /\ selector' = "SelectMu" /\ ret' = SelectMu(tree, 0)
  /\ UNCHANGED <<tree, outputs, el, mu, el1, el2, mu1, mu2, entry, lastPair>>

NextEl == CallSelectEl

NextMu == CallSelectMu

SpecEl == InitEl /\ [][NextEl]_vars

SpecMu == InitMu /\ [][NextMu]_vars

----------------------------------------------------------------------------
(* Vocabulary of the properties                                            *)

\* the quality requirements as the documentation lists them
GoodEl(e) ==
  /\ Abs(tree.elPt[e + 1]) >= 2000
  /\ Abs(tree.elEta[e + 1]) <= 240
  /\ tree.elIso03[e + 1] <= 17
  /\ tree.elMissHits[e + 1] = 0

GoodMu(m) ==
  /\ Abs(tree.muPt[m + 1]) >= 2000
  /\ Abs(tree.muEta[m + 1]) <= 240
  /\ tree.muIso03[m + 1] <= 20
  /\ tree.muHitsValid[m + 1] >= 12
  /\ tree.muHitsPixel[m + 1] >= 2
  /\ tree.muDistPV0[m + 1] <= 2
  /\ tree.muDistPVz[m + 1] <= 50
  /\ tree.muTrackChi2NDOF[m + 1] <= 1000

\* the pairs a selector enumerates, as <<first index, second index>>
Pairs(sel) ==
  CASE sel = "EMu"  -> (0..(tree.Nel - 1)) \X (0..(tree.Nmu - 1))
    [] sel = "EE"   -> {p \in (0..(tree.Nel - 1)) \X (0..(tree.Nel - 1)) : p[1] < p[2]}
    [] sel = "MuMu" -> {p \in (0..(tree.Nmu - 1)) \X (0..(tree.Nmu - 1)) : p[1] < p[2]}
    [] OTHER        -> {}

\* enumeration order of the nested loops
Before(p, q) == p[1] < q[1] \/ (p[1] = q[1] /\ p[2] < q[2])

FirstPt(sel, p) == IF sel = "MuMu" THEN tree.muPt[p[1] + 1] ELSE tree.elPt[p[1] + 1]
SecondPt(sel, p) == IF sel = "EE" THEN tree.elPt[p[2] + 1] ELSE tree.muPt[p[2] + 1]
FirstGood(sel, p) == IF sel = "MuMu" THEN GoodMu(p[1]) ELSE GoodEl(p[1])
SecondGood(sel, p) == IF sel = "EE" THEN GoodEl(p[2]) ELSE GoodMu(p[2])
FirstVec(sel, p) == IF sel = "MuMu" THEN ThisMu(tree, p[1]) ELSE ThisEl(tree, p[1])
SecondVec(sel, p) == IF sel = "EE" THEN ThisEl(tree, p[2]) ELSE ThisMu(tree, p[2])
PairMass(sel, p) == M(VecAdd(FirstVec(sel, p), SecondVec(sel, p)))
PairSumPt(sel, p) == Pt(FirstVec(sel, p)) + Pt(SecondVec(sel, p))
InZWindow(m) == m > 7600 /\ m < 10600

\* quality, opposite charge and mass floor, without the Z veto
NearlyValidPair(sel, p) ==
  /\ FirstGood(sel, p) /\ SecondGood(sel, p)
  /\ ~(FirstPt(sel, p) * SecondPt(sel, p) > 0)
  /\ PairMass(sel, p) >= 1200

ValidPair(sel, p) ==
  /\ NearlyValidPair(sel, p)
  /\ sel \in {"EE", "MuMu"} => ~InZWindow(PairMass(sel, p))

ValidPairs(sel) == {p \in Pairs(sel) : ValidPair(sel, p)}

\* the pair the inner loop is about to examine, <<>> when there is none
Cur ==
  CASE pc = "EMu_mu" /\ mu < tree.Nmu    -> <<el, mu>>
    [] pc = "EE_el2" /\ el2 < tree.Nel   -> <<el1, el2>>
    [] pc = "MuMu_mu2" /\ mu2 < tree.Nmu -> <<mu1, mu2>>
    [] OTHER                             -> <<>>

Written == lastPair # <<>>

AtEntry ==
  /\ maxPtDiLep = entry.maxPtDiLep
  /\ vecLepM = entry.vecLepM
  /\ vecLepP = entry.vecLepP

----------------------------------------------------------------------------
(* Properties                                                              *)

C2_Maximality ==
  (/\ pc = "done"
   /\ ValidPairs(selector) # {}
   /\ \A p \in ValidPairs(selector) : entry.maxPtDiLep < PairSumPt(selector, p))
  => /\ Written
     /\ {vecLepM, vecLepP} = {FirstVec(selector, lastPair), SecondVec(selector, lastPair)}
     /\ maxPtDiLep = Pt(vecLepM) + Pt(vecLepP)
     /\ \A p \in ValidPairs(selector) : maxPtDiLep >= PairSumPt(selector, p)

\* a call on an event with two valid pairs of different sums has ended with
\* the larger one, which was enumerated first
C2_Witness ==
  /\ pc = "done"
  /\ \A p \in ValidPairs(selector) : entry.maxPtDiLep < PairSumPt(selector, p)
  /\ \E p, q \in ValidPairs(selector) :
       /\ Before(p, q)
       /\ PairSumPt(selector, p) > PairSumPt(selector, q)
       /\ lastPair = p

\* C3: whatever the entry values, a selector called on an event without a
\* valid pair leaves maxPtDiLep, vecLepM and vecLepP as they were at entry.
C3_NoValidPairNoUpdate ==
  \/ AtEntry /\ ~Written
  \/ ~(selector \in {"EMu", "EE", "MuMu"} /\ ValidPairs(selector) = {})

\* a call has ended on an event that has pairs, none of them valid
C3_Witness ==
  /\ pc = "done"
  /\ Pairs(selector) # {}
  /\ ValidPairs(selector) = {}
  /\ \E p \in Pairs(selector) :
       FirstGood(selector, p) /\ SecondGood(selector, p)
  /\ AtEntry

\* C4: whenever the outputs were written, vecLepM is the four-momentum of
\* the candidate of the pair with negative stored pt and vecLepP that of the
\* candidate with positive stored pt.
C4_ChargeAssignment ==
  Written =>
    \/ /\ FirstPt(selector, lastPair) < 0 /\ SecondPt(selector, lastPair) > 0
       /\ vecLepM = FirstVec(selector, lastPair)
       /\ vecLepP = SecondVec(selector, lastPair)
    \/ /\ SecondPt(selector, lastPair) < 0 /\ FirstPt(selector, lastPair) > 0
       /\ vecLepM = SecondVec(selector, lastPair)
       /\ vecLepP = FirstVec(selector, lastPair)

\* the outputs hold a pair whose first candidate is the positive one
C4_Witness ==
  /\ Written
  /\ FirstPt(selector, lastPair) > 0
  /\ vecLepM = SecondVec(selector, lastPair)
  /\ vecLepM # vecLepP

\* C5: the same-flavour selectors never write a pair whose invariant mass is
\* strictly between 76.0 and 106.0; a valid pair at exactly 76.0 or 106.0
\* that beats the incumbent is written; and SelectDilepEMu writes an
\* otherwise valid pair inside the window that beats the incumbent.
C5_ZVeto ==
  /\ [](Written /\ selector \in {"EE", "MuMu"}
          => ~InZWindow(PairMass(selector, lastPair)))
  /\ [][(/\ Cur # <<>>
         /\ NearlyValidPair(selector, Cur)
         /\ PairSumPt(selector, Cur) > maxPtDiLep
         /\ \/ PairMass(selector, Cur) \in {7600, 10600}
            \/ selector = "EMu" /\ InZWindow(PairMass(selector, Cur)))
        => lastPair' = Cur]_vars

\* SelectDilepEE has ended without a selection on an event whose only
\* otherwise valid pairs lie inside the window and beat the entry value
C5_Witness ==
  /\ pc = "done" /\ selector = "EE" /\ ~Written
  /\ \E p \in Pairs(selector) :
       /\ NearlyValidPair(selector, p)
       /\ InZWindow(PairMass(selector, p))
       /\ PairSumPt(selector, p) > entry.maxPtDiLep

\* C6: a pair whose two candidates have stored pt of the same sign is never
\* written to the outputs.
C6_OppositeSign ==
  Written =>
    /\ ~(FirstPt(selector, lastPair) < 0 /\ SecondPt(selector, lastPair) < 0)
    /\ ~(FirstPt(selector, lastPair) > 0 /\ SecondPt(selector, lastPair) > 0)

\* a call has ended without a selection on an event with a same-sign pair
\* that passes quality and mass cuts and beats the entry value
C6_Witness ==
  /\ pc = "done" /\ ~Written
  /\ \E p \in Pairs(selector) :
       /\ FirstGood(selector, p) /\ SecondGood(selector, p)
       /\ FirstPt(selector, p) * SecondPt(selector, p) > 0
       /\ PairMass(selector, p) >= 1200
       /\ ~InZWindow(PairMass(selector, p))
       /\ PairSumPt(selector, p) > entry.maxPtDiLep

\* C7: a candidate that fails its quality filter is never part of a pair
\* written to the outputs, as first or as second candidate.
C7_QualityOnly ==
  Written => FirstGood(selector, lastPair) /\ SecondGood(selector, lastPair)

\* a call has ended without a selection although the event pairs an electron
\* with one missing hit, as first and as second candidate, with a good partner
C7_Witness ==
  /\ pc = "done" /\ ~Written /\ selector = "EE"
  /\ \E p, q \in Pairs(selector) :
       /\ ~FirstGood(selector, p) /\ SecondGood(selector, p)
       /\ tree.elMissHits[p[1] + 1] = 1
       /\ FirstGood(selector, q) /\ ~SecondGood(selector, q)
       /\ FirstPt(selector, q) * SecondPt(selector, q) < 0
       /\ FirstPt(selector, p) * SecondPt(selector, p) < 0
       /\ PairSumPt(selector, p) > entry.maxPtDiLep

====
